---- MODULE Spec2Model ----
(***************************************************************************)
(* Model of src/AI.py, a Streamlit script.  Streamlit executes the whole   *)
(* script top to bottom once per page load and once per form submission;   *)
(* one execution is one action here.  The process-wide state is the        *)
(* st.cache_resource cache of load_assets(); the session state is the      *)
(* values of the eight form widgets; everything else is rebuilt by each    *)
(* execution and is kept in `page` (what the execution rendered) and `run` *)
(* (the script's local variables at the end of the execution).             *)
(*                                                                         *)
(* Numbers.  Every measurement is held as an integer count of its widget's *)
(* unit: years, centimetres, jumps, hundredths of a second (reaction) and  *)
(* tenths of a second (run_50m).  Values that the script divides or        *)
(* multiplies (whr, prob, risk_percent, the cells of df_input) are exact   *)
(* rationals <<numerator, denominator>>.                                   *)
(***************************************************************************)
EXTENDS Integers, Sequences, FiniteSets, TLC

VARIABLES disk, cache, widgets, page, run, prevFailed, loadCount, ref

vars == <<disk, cache, widgets, page, run, prevFailed, loadCount, ref>>

(***************************************************************************)
(* Rationals                                                               *)
(***************************************************************************)
Rat(n, d) == <<n, d>>

RatOfInt(n) == <<n, 1>>

RatEq(a, b) == a[1] * b[2] = b[1] * a[2]

\* a > b for rationals with positive denominators
RatGt(a, b) == a[1] * b[2] > b[1] * a[2]

RatSub(a, b) == <<a[1] * b[2] - b[1] * a[2], a[2] * b[2]>>

\* Nearest integer to n/d (n >= 0, d > 0), ties to the even neighbour: the
\* rounding Python's format() applies to the exact value it is given.
RoundHalfEven(n, d) ==
    LET q == n \div d
        r == n % d
    IN  IF 2 * r < d THEN q
        ELSE IF 2 * r > d THEN q + 1
        ELSE IF q % 2 = 0 THEN q ELSE q + 1

\* f"{x:.1f}": x to one decimal place, as a count of tenths
Format1f(x) == RoundHalfEven(10 * x[1], x[2])

\* f"{x:.2f}": x to two decimal places, as a count of hundredths
Format2f(x) == RoundHalfEven(100 * x[1], x[2])

(***************************************************************************)
(* The form: widget bounds and defaults (lines 84-107)                     *)
(***************************************************************************)
GenderOptions == {1, 0}
AgeMin == 6
AgeMax == 18
WcMin == 40
WcMax == 120
RopeSkipMin == 0
RopeSkipMax == 300
\* a hip widget whose lower bound is 0, as the rope-skip widget's is
HcMinAsRopeSkip == RopeSkipMin
HcMin == 40
HcMax == 130
CcMin == 40
CcMax == 120
\* reaction is entered in seconds with step 0.01, run_50m with step 0.1
ReactionUnitsPerSecond == 100
RunUnitsPerSecond == 10
ReactionMin == 0
ReactionMaxSeconds == 5
RunMinSeconds == 5
RunMaxSeconds == 20

\* value= of each widget: what the form holds before the first submission
Defaults ==
    [gender |-> 1, age |-> 10, wc |-> 65, hc |-> 75, cc |-> 70,
     rope_skip |-> 120, reaction |-> 40, run_50m |-> 95]

\* number_input refuses a value outside [min_value, max_value]; selectbox
\* offers only its options.
InBounds(f) ==
    /\ f.gender \in GenderOptions
    /\ AgeMin <= f.age /\ f.age <= AgeMax
    /\ WcMin <= f.wc /\ f.wc <= WcMax
    /\ HcMin <= f.hc /\ f.hc <= HcMax
    /\ CcMin <= f.cc /\ f.cc <= CcMax
    /\ RopeSkipMin <= f.rope_skip /\ f.rope_skip <= RopeSkipMax
    /\ ReactionMin <= f.reaction
    /\ f.reaction <= ReactionMaxSeconds * ReactionUnitsPerSecond
    /\ RunMinSeconds * RunUnitsPerSecond <= f.run_50m
    /\ f.run_50m <= RunMaxSeconds * RunUnitsPerSecond

(***************************************************************************)
(* Values a user is taken to type: every combination of the values on and  *)
(* next to the four advisory thresholds, every widget at its minimum and   *)
(* at its maximum, the defaults, and a hip of 0, which only the widget's   *)
(* min_value keeps out.                                                    *)
(***************************************************************************)
CoreInputs ==
    { [Defaults EXCEPT !.wc = w, !.hc = h, !.rope_skip = r, !.run_50m = t] :
        w \in {65, 81}, h \in {40, 90}, r \in {99, 100}, t \in {100, 101} }

LowInputs ==
    [gender |-> 0, age |-> 6, wc |-> 40, hc |-> 130, cc |-> 40,
     rope_skip |-> 0, reaction |-> 0, run_50m |-> 50]

HighInputs ==
    [gender |-> 1, age |-> 18, wc |-> 120, hc |-> 40, cc |-> 120,
     rope_skip |-> 300, reaction |-> 500, run_50m |-> 200]

SliceInputs ==
    {Defaults, LowInputs, HighInputs, [Defaults EXCEPT !.wc = 80]}
    \cup {[Defaults EXCEPT !.age = v] : v \in {12, 13}}
    \cup {[Defaults EXCEPT !.hc = 0], [HighInputs EXCEPT !.hc = 0]}

Candidates == CoreInputs \cup SliceInputs

\* what the form lets through
FormInputs == {f \in Candidates : InBounds(f)}

(***************************************************************************)
(* The three asset files (lines 26-34).  The classifier and the scaler are *)
(* opaque pickles; they are modelled by what the script can observe of     *)
(* them.  A scaler fitted on a named frame refuses a frame whose column    *)
(* names differ from feature_names_in_; one fitted on a bare array only    *)
(* checks the width.  Both subtract the fitted mean column by column.  The *)
(* classifier checks the width and maps the first scaled feature to a      *)
(* positive-class probability.                                             *)
(***************************************************************************)
\* the training order documented at line 124
DocCols == <<"Age", "RopeSkip", "Reaction", "Run50m", "HC", "Gender", "WC", "WHR", "CC">>

\* a header listing the same columns in the order of the form
PermCols == <<"Gender", "Age", "WC", "HC", "CC", "WHR", "RopeSkip", "Run50m", "Reaction">>

\* a header that still carries the training label
LabelCols == DocCols \o <<"Obesity">>

DocMean == <<RatOfInt(10), RatOfInt(120), Rat(40, 100), Rat(95, 10), RatOfInt(75),
             RatOfInt(1), RatOfInt(65), Rat(13, 15), RatOfInt(70)>>

NamedScaler == [names |-> DocCols, n_features |-> Len(DocCols), mean |-> DocMean]

PlainScaler == [names |-> <<>>, n_features |-> Len(DocCols), mean |-> DocMean]

StubModel == [n_features |-> Len(DocCols)]

Bundle(cols, sc, m) == [expected_cols |-> cols, scaler |-> sc, model |-> m]

GoodBundle == Bundle(DocCols, NamedScaler, StubModel)

Bundles ==
    { GoodBundle,
      Bundle(PermCols, NamedScaler, StubModel),
      Bundle(PermCols, PlainScaler, StubModel),
      Bundle(LabelCols, NamedScaler, StubModel) }

Files == {"my_obesity_model.pkl", "my_scaler.pkl", "ready_train.csv"}

\* a disk: the files that cannot be read, and what the readable ones hold
Disks ==
    {[bad |-> {}, holds |-> b] : b \in Bundles}
    \cup {[bad |-> {f}, holds |-> GoodBundle] : f \in Files}

NoAssets == Bundle(<<>>, [names |-> <<>>, n_features |-> 0, mean |-> <<>>], [n_features |-> 0])

EmptyCache == [loaded |-> FALSE, assets |-> NoAssets]

(***************************************************************************)
(* load_assets (lines 21-39)                                               *)
(***************************************************************************)
\* a variant that lets a missing scaler or CSV pass
load_assets_lenient(d) ==
    [ok |-> "my_obesity_model.pkl" \notin d.bad, assets |-> d.holds]

\* The body of load_assets: joblib.load twice and pd.read_csv, inside one
\* try; any exception reaches the handler, which reports and stops.
load_assets(d) ==
    [ok |-> d.bad = {}, assets |-> d.holds]

\* a variant without the decorator: the body runs on every execution
cache_resource_uncached(c, d) ==
    LET r == load_assets(d)
    IN  [ok |-> r.ok, assets |-> r.assets, ran |-> TRUE]

\* @st.cache_resource: the body runs only while nothing is cached, and only
\* a returned value is cached.  `ran` tells whether the body was executed.
cache_resource(c, d) ==
    IF c.loaded
    THEN [ok |-> TRUE, assets |-> c.assets, ran |-> FALSE]
    ELSE LET r == load_assets(d)
         IN  [ok |-> r.ok, assets |-> r.assets, ran |-> TRUE]

(***************************************************************************)
(* Feature assembly (lines 120-139)                                        *)
(***************************************************************************)
\* a variant without the hc != 0 guard
whr_unguarded(w, h) == Rat(w, h)

\* line 121: whr = wc / hc if hc != 0 else 0
whr_of(w, h) == IF h # 0 THEN Rat(w, h) ELSE RatOfInt(0)

\* line 97: whr_display = wc / hc if hc != 0 else 0
whr_display_of(w, h) == IF h # 0 THEN Rat(w, h) ELSE RatOfInt(0)

\* lines 125-136: the dict, in insertion order, as the one-row frame
data(f, whr) ==
    << <<"Age", RatOfInt(f.age)>>,
       <<"RopeSkip", RatOfInt(f.rope_skip)>>,
       <<"Reaction", Rat(f.reaction, ReactionUnitsPerSecond)>>,
       <<"Run50m", Rat(f.run_50m, RunUnitsPerSecond)>>,
       <<"HC", RatOfInt(f.hc)>>,
       <<"Gender", RatOfInt(f.gender)>>,
       <<"WC", RatOfInt(f.wc)>>,
       <<"WHR", whr>>,
       <<"CC", RatOfInt(f.cc)>> >>

Columns(df) == [i \in 1..Len(df) |-> df[i][1]]

HasColumn(df, c) == \E i \in 1..Len(df) : df[i][1] = c

Cell(df, c) == df[CHOOSE i \in 1..Len(df) : df[i][1] = c][2]

\* a variant without line 139: the frame keeps the insertion order
select_unaligned(df, cols) == [raised |-> FALSE, df |-> df]

\* line 139: df_input[expected_cols]; a label the frame lacks is a KeyError
select_columns(df, cols) ==
    IF \E i \in 1..Len(cols) : ~HasColumn(df, cols[i])
    THEN [raised |-> TRUE, df |-> <<>>]
    ELSE [raised |-> FALSE,
          df |-> [i \in 1..Len(cols) |-> <<cols[i], Cell(df, cols[i])>>]]

(***************************************************************************)
(* Inference (lines 143-145)                                               *)
(***************************************************************************)
Faults == {"none", "transform", "predict"}

\* scaler.transform(df_input); `fault` is an exception raised inside the
\* library for a reason of its own
scaler_transform(sc, df, fault) ==
    IF \/ fault = "transform"
       \/ Len(df) # sc.n_features
       \/ (sc.names # <<>> /\ Columns(df) # sc.names)
    THEN [raised |-> TRUE, x |-> <<>>]
    ELSE [raised |-> FALSE,
          x |-> [i \in 1..Len(df) |-> RatSub(df[i][2], sc.mean[i])]]

ProbUnits == 10000

\* the stub classifier's positive-class probability, from the first feature
StubProb(v) ==
    IF RatGt(RatOfInt(0), v) THEN Rat(0, ProbUnits)
    ELSE IF RatEq(v, RatOfInt(0)) THEN Rat(3333, ProbUnits)
    ELSE IF ~RatGt(v, RatOfInt(2)) THEN Rat(5000, ProbUnits)
    ELSE IF ~RatGt(v, RatOfInt(3)) THEN Rat(5004, ProbUnits)
    ELSE Rat(ProbUnits, ProbUnits)

\* model.predict_proba(input_scaled)[0][1]
predict_proba(m, x, fault) ==
    IF fault = "predict" \/ Len(x) # m.n_features
    THEN [raised |-> TRUE, prob |-> RatOfInt(0)]
    ELSE [raised |-> FALSE, prob |-> StubProb(x[1])]

(***************************************************************************)
(* The result card (lines 151-173)                                         *)
(***************************************************************************)
\* the 0.5 of lines 151-153
RiskThreshold == Rat(1, 2)

card_class(prob) ==
    IF RatGt(prob, RiskThreshold) THEN "result-card high-risk" ELSE "result-card"

status_color(prob) == IF RatGt(prob, RiskThreshold) THEN "#FF5252" ELSE "#4CAF50"

\* a variant that tests prob >= 0.5
status_text_inclusive(prob) ==
    IF ~RatGt(RiskThreshold, prob) THEN "High Risk" ELSE "Low Risk"

status_text(prob) == IF RatGt(prob, RiskThreshold) THEN "High Risk" ELSE "Low Risk"

\* line 145: risk_percent = prob * 100
risk_percent_of(prob) == Rat(prob[1] * 100, prob[2])

NoCard ==
    [shown |-> FALSE, card_class |-> "", status_color |-> "", status_text |-> "",
     percent_text |-> 0, bar_width |-> RatOfInt(0)]

\* lines 155-173: the percentage is printed with one decimal (line 161), the
\* bar takes risk_percent as it is (line 170)
result_card(prob, risk_percent) ==
    [shown |-> TRUE, card_class |-> card_class(prob), status_color |-> status_color(prob),
     status_text |-> status_text(prob), percent_text |-> Format1f(risk_percent),
     bar_width |-> risk_percent]

(***************************************************************************)
(* The advisories (lines 178-190)                                          *)
(***************************************************************************)
WaistLimit == 80
WhrLimit == Rat(9, 10)
RopeSkipLimit == 100
RunLimitSeconds == 10

\* a variant in which the list outlives the execution
stale_reasons == page.reasons

\* line 178: reasons = []
empty_reasons == <<>>

AppendIf(c, seq, e) == IF c THEN Append(seq, e) ELSE seq

\* a variant that tests wc >= 80
reasons_waist_inclusive(f, whr) ==
    LET r1 == AppendIf(f.wc >= WaistLimit, empty_reasons, "wc")
        r2 == AppendIf(RatGt(whr, WhrLimit), r1, "whr")
        r3 == AppendIf(f.rope_skip < RopeSkipLimit, r2, "rope_skip")
    IN  AppendIf(f.run_50m > RunLimitSeconds * RunUnitsPerSecond, r3, "run_50m")

\* lines 178-182
reasons_of(f, whr) ==
    LET r1 == AppendIf(f.wc > WaistLimit, empty_reasons, "wc")
        r2 == AppendIf(RatGt(whr, WhrLimit), r1, "whr")
        r3 == AppendIf(f.rope_skip < RopeSkipLimit, r2, "rope_skip")
    IN  AppendIf(f.run_50m > RunLimitSeconds * RunUnitsPerSecond, r3, "run_50m")

\* a variant that always recommends intervention
closing_unconditional(reasons) == "info"

\* lines 184-190: st.success when reasons is empty, else the reasons and st.info
closing(reasons) == IF reasons = <<>> THEN "success" ELSE "info"

(***************************************************************************)
(* One execution of the script                                             *)
(***************************************************************************)
\* nothing rendered
Blank ==
    [error |-> "none", exception |-> "none", form_shown |-> FALSE, whr_metric |-> 0,
     welcome |-> FALSE, card |-> NoCard, reasons |-> <<>>, closing |-> "none"]

NoRun ==
    [ran |-> FALSE, submitted |-> FALSE, body_ran |-> FALSE, load_ok |-> FALSE,
     whr_display |-> RatOfInt(0), assembled |-> FALSE, whr |-> RatOfInt(0),
     df_input |-> <<>>, transform_calls |-> 0, predict_calls |-> 0,
     predicted |-> FALSE, prob |-> RatOfInt(0)]

\* a variant that swallows the exception
handler_silent == "none"

\* lines 146-148: st.error("预测出错: ..."), then st.stop()
handler_message == "predict"

Failed(pg) == pg.error # "none" \/ pg.exception # "none"

MaxLoadCount == 2

Min(a, b) == IF a < b THEN a ELSE b

\* Lines 42-216, run with the form holding f.  submitted is the value of
\* st.form_submit_button; fault is what the libraries do on this execution.
Script(submitted, f, fault) ==
    LET la == cache_resource(cache, disk)
        assets == la.assets
        r0 == [NoRun EXCEPT !.ran = TRUE, !.submitted = submitted,
                            !.body_ran = la.ran, !.load_ok = la.ok]
    IN
    /\ disk' = disk
    /\ prevFailed' = Failed(page)
    /\ cache' = IF la.ok THEN [loaded |-> TRUE, assets |-> assets] ELSE cache
    /\ loadCount' = IF la.ran /\ la.ok THEN Min(loadCount + 1, MaxLoadCount) ELSE loadCount
    /\ IF ~la.ok
       THEN \* lines 37-39: st.error, st.stop
            /\ page' = [Blank EXCEPT !.error = "load"]
            /\ run' = r0
            /\ widgets' = widgets
       ELSE
       LET wd == whr_display_of(f.wc, f.hc)
           p1 == [Blank EXCEPT !.form_shown = TRUE, !.whr_metric = Format2f(wd)]
           r1 == [r0 EXCEPT !.whr_display = wd]
       IN
       /\ widgets' = f
       /\ IF ~submitted
          THEN \* lines 192-216
               /\ page' = [p1 EXCEPT !.welcome = TRUE]
               /\ run' = r1
          ELSE
          LET whr == whr_of(f.wc, f.hc)
              d == data(f, whr)
              sel == select_columns(d, assets.expected_cols)
              r2 == [r1 EXCEPT !.assembled = TRUE, !.whr = whr]
          IN
          IF sel.raised
          THEN \* the KeyError of line 139 leaves the script; Streamlit shows it
               /\ page' = [p1 EXCEPT !.exception = "KeyError"]
               /\ run' = r2
          ELSE
          LET tr == scaler_transform(assets.scaler, sel.df, fault)
              r3 == [r2 EXCEPT !.df_input = sel.df, !.transform_calls = 1]
          IN
          IF tr.raised
          THEN /\ page' = [p1 EXCEPT !.error = handler_message]
               /\ run' = r3
          ELSE
          LET pp == predict_proba(assets.model, tr.x, fault)
              r4 == [r3 EXCEPT !.predict_calls = 1]
          IN
          IF pp.raised
          THEN /\ page' = [p1 EXCEPT !.error = handler_message]
               /\ run' = r4
          ELSE
          LET rs == reasons_of(f, whr)
          IN
          /\ page' = [p1 EXCEPT !.card = result_card(pp.prob, risk_percent_of(pp.prob)),
                                !.reasons = rs,
                                !.closing = closing(rs)]
          /\ run' = [r4 EXCEPT !.predicted = TRUE, !.prob = pp.prob]

(***************************************************************************)
(* The state machine                                                       *)
(***************************************************************************)
\* what a submission shows of its result
Output(pg) == [card |-> pg.card, reasons |-> pg.reasons, closing |-> pg.closing]

NoRef == [set |-> FALSE, inputs |-> Defaults, out |-> Output(Blank), later |-> FALSE]

Init ==
    /\ disk \in Disks
    /\ cache = EmptyCache
    /\ widgets = Defaults
    /\ page = Blank
    /\ run = NoRun
    /\ prevFailed = FALSE
    /\ loadCount = 0
    /\ ref = NoRef

\* a page load, or a rerun that is not a submission
Rerun ==
    /\ Script(FALSE, widgets, "none")
    /\ UNCHANGED ref

\* the user fills the form that is on the page and presses the button
Submit ==
    /\ page.form_shown
    /\ \E f \in FormInputs, fault \in Faults : Script(TRUE, f, fault)
    /\ UNCHANGED ref

\* the files beside the script are replaced, removed or restored
ChangeDisk ==
    /\ \E d \in Disks \ {disk} : disk' = d
    /\ UNCHANGED <<cache, widgets, page, run, prevFailed, loadCount, ref>>

Next == Rerun \/ Submit \/ ChangeDisk

Spec == Init /\ [][Next]_vars

\* The script applied to values the form would not let through: the
\* submission handler as a function of any nine values.
SubmitAny ==
    /\ page.form_shown
    /\ \E f \in Candidates, fault \in Faults : Script(TRUE, f, fault)
    /\ UNCHANGED ref

NextAny == Rerun \/ SubmitAny \/ ChangeDisk

SpecAny == Init /\ [][NextAny]_vars

\* Submissions with one successful submission remembered in ref, to compare
\* later submissions of the same values with it.
HistInputs == {f \in FormInputs : f.rope_skip # 100 /\ f.run_50m # 100}

SubmitRecorded ==
    /\ page.form_shown
    /\ \E f \in HistInputs, fault \in Faults : Script(TRUE, f, fault)
    /\ IF ref.set
       THEN ref' = [ref EXCEPT !.later = TRUE]
       ELSE \/ ref' = ref
            \/ /\ page'.card.shown
               /\ ref' = [set |-> TRUE, inputs |-> widgets', out |-> Output(page'),
                          later |-> FALSE]

NextHist == Rerun \/ SubmitRecorded

SpecHist == Init /\ [][NextHist]_vars

(***************************************************************************)
(* Properties                                                              *)
(***************************************************************************)
Range(seq) == {seq[i] : i \in 1..Len(seq)}

Success == run.submitted /\ run.predicted

\* C1: whenever scaler.transform is called, the frame it gets has exactly
\* the columns of expected_cols, in that order, each holding the value the
\* assembled dict has under that name, whatever the insertion order was.
C1_FrameFollowsExpectedCols ==
    run.transform_calls = 1 =>
        /\ Columns(run.df_input) = cache.assets.expected_cols
        /\ \A i \in 1..Len(run.df_input) :
              run.df_input[i][2] = Cell(data(widgets, run.whr), run.df_input[i][1])

\* C1 witness: a prediction was made from a frame whose column order is not
\* the insertion order of the dict.
C1_Witness ==
    /\ Success
    /\ run.transform_calls = 1
    /\ Columns(run.df_input) # Columns(data(widgets, run.whr))

\* C2: a submission that yields no probability (a reference column the dict
\* lacks, a failing scaler.transform, a failing predict_proba) ends with an
\* error shown to the user (the handler's st.error, or Streamlit's display
\* of the exception that left the script), with no card, no label, no
\* advisory and no closing message, and with each library call made at most
\* once.
C2_FailureShownNoPartialResult ==
    (run.submitted /\ run.load_ok /\ ~run.predicted) =>
        /\ page.error # "none" \/ page.exception # "none"
        /\ ~page.card.shown
        /\ page.card.status_text = ""
        /\ page.reasons = <<>>
        /\ page.closing = "none"
        /\ run.transform_calls <= 1
        /\ run.predict_calls <= 1

\* C2 witness: a submission stopped by a reference column that is not one
\* of the nine fields.
C2_Witness ==
    /\ run.submitted
    /\ page.exception = "KeyError"
    /\ \E i \in 1..Len(cache.assets.expected_cols) :
          ~HasColumn(data(widgets, run.whr), cache.assets.expected_cols[i])

\* C2 witness of the handled failures: scaler.transform raised.
C2_WitnessHandled ==
    /\ run.submitted
    /\ run.transform_calls = 1
    /\ run.predict_calls = 0
    /\ page.error = "predict"

Halted ==
    /\ page.error = "load"
    /\ ~page.form_shown
    /\ ~page.welcome
    /\ ~page.card.shown
    /\ ~run.assembled
    /\ run.transform_calls = 0
    /\ run.predict_calls = 0
    /\ ~cache.loaded

\* C3: an execution of the script that has to load the assets while one of
\* the three files cannot be read shows the load error and nothing else: no
\* form, no assembled record, no call of the scaler or the classifier.
C3_LoadFailureHalts ==
    [][(~cache.loaded /\ disk.bad # {} /\ disk' = disk) => Halted']_vars

\* C3 witness: the script halted on an unreadable reference CSV.
C3_Witness ==
    /\ run.ran
    /\ disk.bad = {"ready_train.csv"}
    /\ Halted

\* C4: load_assets returns at most once, and once it has, no execution of
\* the script runs its body again or changes the cached triple, whether the
\* submission succeeds or fails and whatever happens to the files.
C4_LoadedOnce ==
    /\ [](loadCount <= 1)
    /\ [][cache.loaded =>
            /\ cache' = cache
            /\ loadCount' = loadCount
            /\ (disk' = disk => ~run'.body_ran)]_vars

\* C4 witness: a result produced by the submission after a failed one, from
\* the assets loaded once, while the files on disk are no longer those.
C4_Witness ==
    /\ prevFailed
    /\ Success
    /\ page.card.shown
    /\ loadCount = 1
    /\ disk.holds # cache.assets

LabelAgrees ==
    /\ page.card.status_text = "High Risk" <=> 2 * run.prob[1] > run.prob[2]
    /\ page.card.status_text = "Low Risk" <=> 2 * run.prob[1] <= run.prob[2]
    /\ page.card.card_class = "result-card high-risk" <=> page.card.status_text = "High Risk"
    /\ page.card.card_class = "result-card" <=> page.card.status_text = "Low Risk"
    /\ page.card.status_color = "#FF5252" <=> page.card.status_text = "High Risk"
    /\ page.card.status_color = "#4CAF50" <=> page.card.status_text = "Low Risk"

Abs(n) == IF n < 0 THEN -n ELSE n

\* C5 as stated: the label is high risk exactly when p > 0.5, class and
\* colour agree with it, and the percentage on the card is p * 100.
C5_DisplayedIsExact ==
    page.card.shown =>
        /\ LabelAgrees
        /\ page.card.percent_text * run.prob[2] = 10 * 100 * run.prob[1]

\* C5 amended: the label is high risk exactly when p > 0.5, class and
\* colour agree with it, the percentage on the card is p * 100 rounded to
\* one decimal place (within 0.05 of p * 100), and the width of the bar is
\* p * 100 itself.
C5_DisplayedIsRounded ==
    page.card.shown =>
        /\ LabelAgrees
        /\ 0 <= run.prob[1] /\ run.prob[1] <= run.prob[2]
        /\ 2 * Abs(page.card.percent_text * run.prob[2] - 10 * 100 * run.prob[1])
              <= run.prob[2]
        /\ page.card.bar_width = <<100 * run.prob[1], run.prob[2]>>

\* C5 witness: p = 0.5004 is shown as high risk with 50.0 on the card.
C5_Witness ==
    /\ page.card.shown
    /\ run.prob[1] * 10000 = 5004 * run.prob[2]
    /\ page.card.status_text = "High Risk"
    /\ page.card.percent_text = 500

\* C5 witness of the boundary: p = 0.5 exactly is shown as low risk.
C5_WitnessBoundary ==
    /\ page.card.shown
    /\ 2 * run.prob[1] = run.prob[2]
    /\ page.card.status_text = "Low Risk"

\* C6: after a successful submission each advisory is shown exactly when
\* its own threshold is passed (waist > 80, waist/hip > 0.9, jumps < 100,
\* sprint > 10 s), whatever the other three and the probability are; the
\* boundary values show nothing, the advisories come in the order waist,
\* ratio, jump-rope, sprint, and the example inputs show none.
C6_AdvisoriesByThreshold ==
    Success =>
        /\ "wc" \in Range(page.reasons) <=> widgets.wc > 80
        /\ "whr" \in Range(page.reasons) <=> 10 * widgets.wc > 9 * widgets.hc
        /\ "rope_skip" \in Range(page.reasons) <=> widgets.rope_skip < 100
        /\ "run_50m" \in Range(page.reasons) <=> widgets.run_50m > 100
        /\ Cardinality(Range(page.reasons)) = Len(page.reasons)
        /\ page.reasons \in
              {SelectSeq(<<"wc", "whr", "rope_skip", "run_50m">>, LAMBDA t : t \in S) :
                  S \in SUBSET {"wc", "whr", "rope_skip", "run_50m"}}
        /\ widgets = [gender |-> 1, age |-> 10, wc |-> 65, hc |-> 75, cc |-> 70,
                      rope_skip |-> 120, reaction |-> 40, run_50m |-> 95]
              => page.reasons = <<>>

\* C6 witness: waist 81 and hip 90 (ratio exactly 0.9), 100 jumps, 10.1 s:
\* the waist and the sprint advisories, and not the two on their boundary.
C6_Witness ==
    /\ Success
    /\ widgets.wc = 81 /\ widgets.hc = 90
    /\ widgets.rope_skip = 100 /\ widgets.run_50m = 101
    /\ page.reasons = <<"wc", "run_50m">>

\* C6 witness of the example: the example inputs succeed and show none.
C6_WitnessExample ==
    /\ Success
    /\ widgets = [gender |-> 1, age |-> 10, wc |-> 65, hc |-> 75, cc |-> 70,
                  rope_skip |-> 120, reaction |-> 40, run_50m |-> 95]
    /\ page.reasons = <<>>

\* C7: whenever the record is assembled, its WHR is waist / hip when hip is
\* not 0 and 0 when hip is 0, with a denominator that is never 0 (no
\* division by zero); the frame holds that value under "WHR"; and the ratio
\* computed for the form in the same execution is the same number.
C7_WhrRule ==
    /\ (run.ran /\ run.load_ok) =>
          /\ run.whr_display[2] # 0
          /\ widgets.hc # 0 => run.whr_display[1] * widgets.hc = widgets.wc * run.whr_display[2]
          /\ widgets.hc = 0 => run.whr_display[1] = 0
    /\ run.assembled =>
          /\ run.whr[2] # 0
          /\ widgets.hc # 0 => run.whr[1] * widgets.hc = widgets.wc * run.whr[2]
          /\ widgets.hc = 0 => run.whr[1] = 0
          /\ run.whr_display[1] * run.whr[2] = run.whr[1] * run.whr_display[2]
          /\ (run.transform_calls = 1 /\ HasColumn(run.df_input, "WHR"))
                => Cell(run.df_input, "WHR") = run.whr

\* C7 witness: a prediction made from waist 120 and hip 0.
C7_Witness ==
    /\ Success
    /\ widgets.hc = 0
    /\ widgets.wc = 120
    /\ run.whr[1] = 0

\* C7 witness of the division: a prediction made from waist 65 and hip 75.
C7_WitnessDivision ==
    /\ Success
    /\ widgets.hc = 75
    /\ widgets.wc = 65
    /\ run.whr[1] * 75 = 65 * run.whr[2]

\* C8: a successful submission of the values that an earlier successful
\* submission had shows the same card, the same advisories and the same
\* closing message, whatever was submitted in between.
C8_SameInputsSameOutput ==
    (ref.set /\ Success /\ widgets = ref.inputs) => Output(page) = ref.out

\* C8 witness: the remembered values submitted again, successfully, right
\* after a failed submission.
C8_Witness ==
    /\ ref.set
    /\ ref.later
    /\ prevFailed
    /\ Success
    /\ widgets = ref.inputs
    /\ page.reasons # <<>>

NoneTriggered ==
    /\ widgets.wc <= 80
    /\ 10 * widgets.wc <= 9 * widgets.hc
    /\ widgets.rope_skip >= 100
    /\ widgets.run_50m <= 100

\* C9: after a successful submission exactly one closing message is shown:
\* the success message when no threshold is passed, the intervention
\* recommendation when at least one is; the risk label has no part in it.
C9_ClosingByAdvisories ==
    Success =>
        /\ page.closing \in {"success", "info"}
        /\ page.closing = "success" <=> NoneTriggered
        /\ page.closing = "success" <=> page.reasons = <<>>

\* C9 witness: a high-risk card above the all-healthy message.
C9_Witness ==
    /\ Success
    /\ page.card.status_text = "High Risk"
    /\ page.closing = "success"

\* C9 witness of the other mix: a low-risk card above advisories.
C9_WitnessLowRisk ==
    /\ Success
    /\ page.card.status_text = "Low Risk"
    /\ page.closing = "info"
    /\ page.reasons # <<>>

\* C10: the form's values always lie inside the widgets' bounds, so an
\* assembled record has a hip that is not 0, a WHR that is waist / hip and
\* not the fallback, and a WHR between 40/130 and 120/40.
C10_InputsInsideBounds ==
    /\ widgets.gender \in {0, 1}
    /\ 6 <= widgets.age /\ widgets.age <= 18
    /\ 40 <= widgets.wc /\ widgets.wc <= 120
    /\ 40 <= widgets.hc /\ widgets.hc <= 130
    /\ 40 <= widgets.cc /\ widgets.cc <= 120
    /\ 0 <= widgets.rope_skip /\ widgets.rope_skip <= 300
    /\ 0 <= widgets.reaction /\ widgets.reaction <= 500
    /\ 50 <= widgets.run_50m /\ widgets.run_50m <= 200
    /\ run.assembled =>
          /\ widgets.hc # 0
          /\ run.whr = <<widgets.wc, widgets.hc>>
          /\ 130 * run.whr[1] >= 40 * run.whr[2]
          /\ 40 * run.whr[1] <= 120 * run.whr[2]

\* C10 witness: a prediction from the largest waist and the smallest hip,
\* whose WHR is 120/40.
C10_Witness ==
    /\ Success
    /\ widgets.wc = 120 /\ widgets.hc = 40
    /\ 40 * run.whr[1] = 120 * run.whr[2]

\* C10 witness of the other end: a WHR of 40/130.
C10_WitnessLow ==
    /\ Success
    /\ widgets.wc = 40 /\ widgets.hc = 130
    /\ 130 * run.whr[1] = 40 * run.whr[2]

====
